---- MODULE Spec2Model ----
(***************************************************************************)
(* A model of candidate_solution.py: the SQLite store of the Pokemon       *)
(* assessment (tables pokemon, types, abilities, trainers and              *)
(* trainer_pokemon_abilities), the cleaning pass clean_database, the read  *)
(* endpoint get_pokemon_by_type and the write endpoint create_pokemon.     *)
(*                                                                         *)
(* A name is a sequence of one-character strings.  A table is a set of row *)
(* records with pairwise distinct ids.  The SQL NULL of a type slot is 0   *)
(* (row ids start at 1).  Names are ASCII, where Python's str.lower and    *)
(* SQLite's LOWER agree; the store variables hold the content of the       *)
(* database file, which is taken to exist (connect_db succeeds), and no    *)
(* statement raises sqlite3.Error (the tables carry no constraint).        *)
(*                                                                         *)
(* There is one specification per operation, each starting the operation   *)
(* on the stores its claims are about: SpecClean (clean_database on any    *)
(* small store), SpecQuery (get_pokemon_by_type on any small store) and    *)
(* SpecCreate (create_pokemon, repeatedly, on the stores the service may   *)
(* start on).                                                              *)
(***************************************************************************)
EXTENDS Integers, Sequences, FiniteSets

VARIABLES pokemon, types, abilities, trainers, trainer_pokemon_abilities,
          before, last, runs, creates

vars == <<pokemon, types, abilities, trainers, trainer_pokemon_abilities,
          before, last, runs, creates>>

\* ------------------------------------------------------------ bounds

\* Rows of the initial store, over all its tables together.
MaxRows == 2
\* Calls of clean_database in one behaviour.
MaxRuns == 2
\* Rows of the pokemon and types tables together, in a store that is queried.
MaxQueryRows == 3
\* Calls of create_pokemon in one behaviour.
MaxCreates == 2

\* ------------------------------------------------------------ characters

\* The characters of the model, in code point order.
Alphabet ==
    << " ", "-", "?",
       "A", "B", "C", "D", "E", "F", "G", "H", "I", "J", "K", "L", "M",
       "N", "O", "P", "Q", "R", "S", "T", "U", "V", "W", "X", "Y", "Z",
       "a", "b", "c", "d", "e", "f", "g", "h", "i", "j", "k", "l", "m",
       "n", "o", "p", "q", "r", "s", "t", "u", "v", "w", "x", "y", "z" >>

Chars == { Alphabet[i] : i \in DOMAIN Alphabet }

\* ord(c), up to the gaps between the ranges.
Ord == [ c \in Chars |-> CHOOSE i \in DOMAIN Alphabet : Alphabet[i] = c ]

FirstUpper == Ord["A"]
FirstLower == Ord["a"]

IsUpper(c) == Ord[c] >= FirstUpper /\ Ord[c] < FirstLower
IsLower(c) == Ord[c] >= FirstLower
IsCased(c) == IsUpper(c) \/ IsLower(c)
IsSpace(c) == c = " "

ToLower(c) == IF IsUpper(c) THEN Alphabet[Ord[c] + (FirstLower - FirstUpper)] ELSE c
ToUpper(c) == IF IsLower(c) THEN Alphabet[Ord[c] - (FirstLower - FirstUpper)] ELSE c

\* ------------------------------------------------------------ str methods

\* str.lower()
lower(s) == [ i \in 1..Len(s) |-> ToLower(s[i]) ]

\* SQLite's LOWER(X)
LOWER(s) == [ i \in 1..Len(s) |-> ToLower(s[i]) ]

RECURSIVE lstrip(_)
lstrip(s) ==
    IF s # <<>> /\ IsSpace(Head(s)) THEN lstrip(Tail(s)) ELSE s

RECURSIVE rstrip(_)
rstrip(s) ==
    IF s # <<>> /\ IsSpace(s[Len(s)]) THEN rstrip(SubSeq(s, 1, Len(s) - 1)) ELSE s

\* str.strip()
strip(s) == rstrip(lstrip(s))

\* str.title(): a cased character is uppercased when the character before it
\* is uncased (or there is none) and lowercased otherwise.
RECURSIVE TitleFrom(_, _)
TitleFrom(s, previous_is_cased) ==
    IF s = <<>> THEN <<>>
    ELSE LET c == Head(s) IN
         IF IsCased(c)
         THEN << IF previous_is_cased THEN ToLower(c) ELSE ToUpper(c) >>
              \o TitleFrom(Tail(s), TRUE)
         ELSE << c >> \o TitleFrom(Tail(s), FALSE)

title(s) == TitleFrom(s, FALSE)

\* x < y for two strings: by code points, a proper prefix first.
RECURSIVE StrLess(_, _)
StrLess(x, y) ==
    IF y = <<>> THEN FALSE
    ELSE IF x = <<>> THEN TRUE
    ELSE IF Head(x) # Head(y) THEN Ord[Head(x)] < Ord[Head(y)]
    ELSE StrLess(Tail(x), Tail(y))

\* ------------------------------------------------------------ difflib

\* The length of the common run of a from i and b from j, inside a[..ahi], b[..bhi].
RECURSIVE CommonLen(_, _, _, _, _, _)
CommonLen(a, b, i, j, ahi, bhi) ==
    IF i <= ahi /\ j <= bhi /\ a[i] = b[j]
    THEN 1 + CommonLen(a, b, i + 1, j + 1, ahi, bhi)
    ELSE 0

\* SequenceMatcher.find_longest_match on a[alo..ahi], b[blo..bhi] (no junk, and
\* no popular elements below 200 characters): the longest block, of those the
\* one starting earliest in a, of those the one starting earliest in b.
find_longest_match(a, b, alo, ahi, blo, bhi) ==
    LET starts == (alo..ahi) \X (blo..bhi)
        size == [ p \in starts |-> CommonLen(a, b, p[1], p[2], ahi, bhi) ]
        bestsize == IF starts = {} THEN 0
                    ELSE CHOOSE k \in { size[p] : p \in starts } :
                           \A p \in starts : size[p] <= k
    IN  IF bestsize = 0 THEN [i |-> alo, j |-> blo, k |-> 0]
        ELSE LET best == { p \in starts : size[p] = bestsize }
                 p == CHOOSE q \in best :
                        \A r \in best : q[1] < r[1] \/ (q[1] = r[1] /\ q[2] <= r[2])
             IN  [i |-> p[1], j |-> p[2], k |-> bestsize]

\* The sum of the sizes of SequenceMatcher.get_matching_blocks.
RECURSIVE MatchingSize(_, _, _, _, _, _)
MatchingSize(a, b, alo, ahi, blo, bhi) ==
    IF alo > ahi \/ blo > bhi THEN 0
    ELSE LET m == find_longest_match(a, b, alo, ahi, blo, bhi) IN
         IF m.k = 0 THEN 0
         ELSE m.k + MatchingSize(a, b, alo, m.i - 1, blo, m.j - 1)
                  + MatchingSize(a, b, m.i + m.k, ahi, m.j + m.k, bhi)

\* SequenceMatcher(None, a, b).ratio() = 2.0 * matches / (len(a) + len(b)), as
\* the fraction num / den; 1.0 for two empty strings.
ratio(a, b) ==
    IF Len(a) + Len(b) = 0 THEN [num |-> 1, den |-> 1]
    ELSE [num |-> 2 * MatchingSize(a, b, 1, Len(a), 1, Len(b)), den |-> Len(a) + Len(b)]

\* cutoff=0.8, in tenths.
CutoffTenths == 8

\* get_close_matches with the cutoff raised to 0.9.
get_close_matches_cutoff9(word, possibilities) ==
    LET score == [ x \in { possibilities[i] : i \in DOMAIN possibilities } |->
                     ratio(x, word) ]
        result == { x \in DOMAIN score : 10 * score[x].num >= 9 * score[x].den }
    IN  IF result = {} THEN <<>>
        ELSE << CHOOSE x \in result :
                  \A y \in result : score[x].num * score[y].den >= score[y].num * score[x].den >>

\* difflib.get_close_matches(word, possibilities, n=1, cutoff=0.8): the
\* possibilities x with SequenceMatcher(x, word).ratio() >= cutoff (the two quick
\* ratios are upper bounds of it), and of them the greatest (score, x); a
\* sequence of at most one string.
get_close_matches(word, possibilities) ==
    LET score == [ x \in { possibilities[i] : i \in DOMAIN possibilities } |->
                     ratio(x, word) ]
        result == { x \in DOMAIN score : 10 * score[x].num >= CutoffTenths * score[x].den }
        Greater(x, y) ==
            \/ score[x].num * score[y].den > score[y].num * score[x].den
            \/ /\ score[x].num * score[y].den = score[y].num * score[x].den
               /\ StrLess(y, x)
    IN  IF result = {} THEN <<>>
        ELSE << CHOOSE x \in result : \A y \in result \ {x} : Greater(x, y) >>

\* ------------------------------------------------------------ the store

\* A row of types, abilities or trainers.
Row(id, name) == [id |-> id, name |-> name]

\* A row of pokemon; a type slot is a types id, or 0 for NULL.
PokemonRow(id, name, type1_id, type2_id) ==
    [id |-> id, name |-> name, type1_id |-> type1_id, type2_id |-> type2_id]

\* What the variable before keeps from before the last call that wrote to the
\* store: the tables, and the canonical list of the clean_database before it
\* (empty when there was none).
Snapshot(official_list) ==
    [pokemon |-> pokemon, types |-> types, abilities |-> abilities,
     trainers |-> trainers, trainer_pokemon_abilities |-> trainer_pokemon_abilities,
     official_list |-> official_list]

\* The variable before when no call has been made.
NoSnapshot ==
    [pokemon |-> {}, types |-> {}, abilities |-> {}, trainers |-> {},
     trainer_pokemon_abilities |-> {}, official_list |-> <<>>]

\* The record of a call: the operation, its path parameter, what the provider
\* answered (types, abilities, official_list), the HTTP status and the list returned.
Call(op, arg, tys, abis, official_list, status, result) ==
    [op |-> op, arg |-> arg, types |-> tys, abilities |-> abis,
     official_list |-> official_list, status |-> status, result |-> result]

NoCall == Call("none", <<>>, <<>>, <<>>, <<>>, 0, <<>>)

Ids(table) == { r.id : r \in table }

\* cursor.lastrowid after an INSERT: one more than the greatest id of the table.
lastrowid(table) ==
    IF table = {} THEN 1
    ELSE 1 + CHOOSE m \in Ids(table) : \A i \in Ids(table) : i <= m

\* ------------------------------------------------------------ clean_database

\* The fixed sentinel names of the purge.
Sentinels == { <<"-", "-", "-">>, <<"?", "?", "?">>, <<>> }

\* The new name of one pokemon row in the misspelling pass.
CorrectedName(old_name, official_list) ==
    LET old_name_lower == lower(strip(old_name)) IN
    IF \E i \in DOMAIN official_list : official_list[i] = old_name_lower
    THEN old_name
    ELSE LET matches == get_close_matches(old_name_lower, official_list) IN
         IF matches # <<>> /\ matches[1] # old_name_lower
         THEN title(matches[1])
         ELSE old_name

\* UPDATE pokemon SET name = corrected.title() for every misspelt row.
CorrectMisspellings(table, official_list) ==
    { [r EXCEPT !.name = CorrectedName(r.name, official_list)] : r \in table }

\* DELETE FROM t WHERE id NOT IN (SELECT MIN(id) FROM t GROUP BY LOWER(name)).
RemoveDuplicates(table) ==
    { r \in table : \A s \in table : LOWER(s.name) = LOWER(r.name) => r.id <= s.id }

\* StandardiseCasing without the strip().
StandardiseCasingNoStrip(table) ==
    { [r EXCEPT !.name = title(r.name)] : r \in table }

\* UPDATE t SET name = name.strip().title() for every row.
StandardiseCasing(table) ==
    { [r EXCEPT !.name = title(strip(r.name))] : r \in table }

\* DELETE FROM t WHERE name IN ('---', '???', '').
RemoveRedundant(table) ==
    { r \in table : r.name \notin Sentinels }

CleanPokemon(table, official_list) ==
    RemoveRedundant(StandardiseCasing(RemoveDuplicates(
        CorrectMisspellings(table, official_list))))

CleanTable(table) ==
    RemoveRedundant(StandardiseCasing(RemoveDuplicates(table)))

\* The list the provider returns to clean_database: the names it knows, or
\* nothing when the request fails.
OfficialNames ==
    << <<"p", "i", "k", "a", "c", "h", "u">>,
       <<"r", "a", "i", "c", "h", "u">>,
       <<"p", "i", "c", "h", "u">> >>

OfficialLists == { <<>>, OfficialNames }

\* clean_database(conn), with the list official_list fetched from the provider.
clean_database(official_list) ==
    /\ runs < MaxRuns
    /\ pokemon' = CleanPokemon(pokemon, official_list)
    /\ types' = CleanTable(types)
    /\ abilities' = CleanTable(abilities)
    /\ trainers' = CleanTable(trainers)
    /\ before' = Snapshot(last.official_list)
    /\ last' = Call("clean", <<>>, <<>>, <<>>, official_list, 0, <<>>)
    /\ runs' = runs + 1
    /\ UNCHANGED <<trainer_pokemon_abilities, creates>>

CleanNext == \E official_list \in OfficialLists : clean_database(official_list)

\* The names of the pokemon rows of a store that is yet to be cleaned.
DirtyPokemonNames ==
    { <<"p", "i", "k", "a", "c", "h", "u">>,
      <<"P", "i", "k", "a", "c", "h", "u", " ">>,
      <<"P", "i", "k", "u", "c", "h", "u">>,
      <<" ", "p", "i", "k", "u", "c", "h", "u">>,
      <<"M", "E", "W">>,
      <<"-", "-", "-">>,
      <<" ", "?", "?", "?">>,
      <<" ">> }

\* The names of the types, abilities and trainers rows of such a store.
DirtyNames ==
    { <<"f", "i", "r", "e">>,
      <<" ", "F", "i", "r", "e">>,
      <<"F", "I", "R", "E">>,
      <<"-", "-", "-", " ">>,
      <<"?", "?", "?">>,
      <<>> }

\* The tables with rows 1..n named from names.
Tables(n, names) == { { Row(i, f[i]) : i \in 1..n } : f \in [1..n -> names] }

PokemonTables(n, names) ==
    { { PokemonRow(i, f[i], 0, 0) : i \in 1..n } : f \in [1..n -> names] }

\* Any store of at most MaxRows rows, before clean_database has run.
CleanInit ==
    /\ \E np, nt, na, nr \in 0..MaxRows :
         /\ np + nt + na + nr <= MaxRows
         /\ pokemon \in PokemonTables(np, DirtyPokemonNames)
         /\ types \in Tables(nt, DirtyNames)
         /\ abilities \in Tables(na, DirtyNames)
         /\ trainers \in Tables(nr, DirtyNames)
    /\ trainer_pokemon_abilities = {}
    /\ last = NoCall
    /\ before = NoSnapshot
    /\ runs = 0
    /\ creates = 0

SpecClean == CleanInit /\ [][CleanNext]_vars

\* ------------------------------------------------------------ claims on clean_database

Pikachu == <<"P", "i", "k", "a", "c", "h", "u">>
Pikuchu == <<"P", "i", "k", "u", "c", "h", "u">>

\* No two rows of the table have names equal under case-insensitive comparison.
NamesUnique(table) ==
    \A r, s \in table : r.id # s.id => lower(r.name) # lower(s.name)

\* C1: after clean_database has run, in each of pokemon, types, abilities and
\* trainers no two rows have names equal under case-insensitive comparison.
C1_NoDuplicateNames ==
    runs >= 1 =>
        /\ NamesUnique(pokemon)
        /\ NamesUnique(types)
        /\ NamesUnique(abilities)
        /\ NamesUnique(trainers)

\* C2: with the same canonical list, a second run of clean_database leaves the
\* four entity tables as the first run left them.
C2_Idempotent ==
    (runs >= 2 /\ last.official_list = before.official_list) =>
        /\ pokemon = before.pokemon
        /\ types = before.types
        /\ abilities = before.abilities
        /\ trainers = before.trainers

\* The name clean_database gives a pokemon row that it keeps.
CleanedName(name, official_list) == title(strip(CorrectedName(name, official_list)))

\* C3: two pokemon rows whose names differ only in letter case and surrounding
\* whitespace (names the correction leaves alone and the purge keeps, no other
\* row coming to the same name) leave exactly one row with the normalized name,
\* the one with the smaller id.
C3_CaseWhitespaceDuplicatesCollapse ==
    runs = 1 =>
        \A r1, r2 \in before.pokemon :
            ( /\ r1.id < r2.id
              /\ lower(strip(r1.name)) = lower(strip(r2.name))
              /\ CorrectedName(r1.name, last.official_list) = r1.name
              /\ CorrectedName(r2.name, last.official_list) = r2.name
              /\ title(strip(r1.name)) \notin Sentinels
              /\ \A r3 \in before.pokemon \ {r1, r2} :
                   CleanedName(r3.name, last.official_list) # title(strip(r1.name)) )
            => { s.id : s \in { t \in pokemon : t.name = title(strip(r1.name)) } } = {r1.id}

\* No row of the table is named by a sentinel, and every row of the table as it
\* was whose trimmed name is a sentinel is gone.
Purged(table, was) ==
    /\ \A r \in table : r.name \notin Sentinels
    /\ \A r \in was : strip(r.name) \in Sentinels => r.id \notin Ids(table)

\* C5: after clean_database has run, no row of the four entity tables has a
\* name in {"---", "???", ""}, and the rows that were named by a sentinel padded
\* with whitespace, or by whitespace alone, are gone.
C5_NoSentinelNames ==
    runs >= 1 =>
        /\ Purged(pokemon, before.pokemon)
        /\ Purged(types, before.types)
        /\ Purged(abilities, before.abilities)
        /\ Purged(trainers, before.trainers)

\* C5's case: a types row named by a padded sentinel went through clean_database,
\* beside a row that stays.
C5_Witness ==
    /\ runs >= 1
    /\ \E r \in before.types : r.name \notin Sentinels /\ strip(r.name) \in Sentinels
    /\ types # {}

\* The canonical names at least 0.8 similar to word that no other canonical name
\* beats.
BestCanonical(word, official_list) ==
    LET names == { official_list[i] : i \in DOMAIN official_list }
        score == [ x \in names |-> ratio(x, word) ]
    IN  { x \in names :
            /\ 5 * score[x].num >= 4 * score[x].den
            /\ \A y \in names : score[y].num * score[x].den <= score[x].num * score[y].den }

RECURSIVE fetchall(_)
fetchall(table) ==
    IF table = {} THEN <<>>
    ELSE LET r == CHOOSE x \in table : \A y \in table : x.id <= y.id
         IN  <<r>> \o fetchall(table \ {r})

\* SELECT DISTINCT: each value once, where it first occurs.
RECURSIVE Distinct(_)
Distinct(seq) ==
    IF seq = <<>> THEN <<>>
    ELSE LET rest == Distinct(SubSeq(seq, 1, Len(seq) - 1))
             x == seq[Len(seq)]
         IN  IF \E i \in DOMAIN rest : rest[i] = x THEN rest ELSE Append(rest, x)

\* SlotMatches comparing with the parameter as given.
SlotMatchesExact(type_id, type_name) ==
    \E t \in types : t.id = type_id /\ LOWER(t.name) = type_name

\* LOWER(t.name) = LOWER(?) for the types row t that LEFT JOINs on the slot;
\* NULL, so not true, when the slot is NULL or no types row has that id.
SlotMatches(type_id, type_name) ==
    \E t \in types : t.id = type_id /\ LOWER(t.name) = LOWER(type_name)

\* The list get_pokemon_by_type(type_name) returns.
PokemonByType(type_name) ==
    LET rows == fetchall({ p \in pokemon :
                   \/ SlotMatches(p.type1_id, type_name)
                   \/ SlotMatches(p.type2_id, type_name) })
    IN  Distinct([ i \in DOMAIN rows |-> rows[i].name ])

\* GET /pokemon/type/{type_name}
get_pokemon_by_type(type_name) ==
    /\ last' = Call("by_type", type_name, <<>>, <<>>, <<>>, 200, PokemonByType(type_name))
    /\ UNCHANGED <<pokemon, types, abilities, trainers, trainer_pokemon_abilities,
                   before, runs, creates>>

\* The type names that are asked for.
TypeQueries ==
    { <<"f", "i", "r", "e">>, <<"F", "I", "R", "E">>,
      <<"w", "a", "t", "e", "r">>, <<"g", "h", "o", "s", "t">> }

QueryNext == \E type_name \in TypeQueries : get_pokemon_by_type(type_name)

QueryPokemonNames == { Pikachu, <<"E", "e", "v", "e", "e">> }

QueryTypeNames ==
    { <<"F", "i", "r", "e">>, <<"f", "i", "r", "e">>, <<"W", "a", "t", "e", "r">> }

\* The pokemon tables with rows 1..n, named from names, each type slot NULL or
\* one of the ids.
TypedPokemonTables(n, names, ids) ==
    { { PokemonRow(i, f[i][1], f[i][2], f[i][3]) : i \in 1..n } :
        f \in [1..n -> names \X ({0} \cup ids) \X ({0} \cup ids)] }

\* Any store of at most MaxQueryRows pokemon and types rows; a type slot may
\* hold an id that no types row has.
QueryInit ==
    /\ \E np, nt \in 0..MaxQueryRows :
         /\ np + nt <= MaxQueryRows
         /\ pokemon \in TypedPokemonTables(np, QueryPokemonNames, 1..2)
         /\ types \in Tables(nt, QueryTypeNames)
    /\ abilities = {}
    /\ trainers = {}
    /\ trainer_pokemon_abilities = {}
    /\ last = NoCall
    /\ before = NoSnapshot
    /\ runs = 0
    /\ creates = 0

SpecQuery == QueryInit /\ [][QueryNext]_vars

Range(seq) == { seq[i] : i \in DOMAIN seq }

\* C9: get_pokemon_by_type returns the same set of names for inputs that differ
\* only in letter case, no name twice, and the empty list with status 200 when
\* no type matches.
C9_QueryCaseInsensitive ==
    last.op = "by_type" =>
        /\ \A other \in TypeQueries :
             lower(other) = lower(last.arg)
                => Range(PokemonByType(other)) = Range(last.result)
        /\ \A i, j \in DOMAIN last.result :
             last.result[i] = last.result[j] => i = j
        /\ last.status = 200
        /\ (\A t \in types : lower(t.name) # lower(last.arg)) => last.result = <<>>

\* C9's case: "FIRE" was asked for and two rows named alike have that type.
C9_Witness ==
    /\ last.op = "by_type"
    /\ last.arg = <<"F", "I", "R", "E">>
    /\ last.result = <<Pikachu>>
    /\ \E p, q \in pokemon :
         /\ p.id # q.id /\ p.name = Pikachu /\ q.name = Pikachu
         /\ SlotMatches(p.type1_id, last.arg)
         /\ SlotMatches(q.type2_id, last.arg)

\* ------------------------------------------------------------ create_pokemon

\* For each name in turn: SELECT id FROM t WHERE LOWER(name) = LOWER(?) with the
\* trimmed, lowercased name, fetchone, and INSERT of the title-cased name when
\* there is no row.  The outcomes, as the ids collected and the table left:
\* fetchone returns any of the rows that match.
RECURSIVE LookupOrInsert(_, _)
LookupOrInsert(names, table) ==
    IF names = <<>> THEN { [ids |-> <<>>, table |-> table] }
    ELSE LET name == lower(strip(Head(names)))
             found == { r \in table : LOWER(r.name) = LOWER(name) }
         IN  IF found # {}
             THEN UNION { { [ids |-> <<r.id>> \o o.ids, table |-> o.table] :
                              o \in LookupOrInsert(Tail(names), table) } : r \in found }
             ELSE LET id == lastrowid(table)
                  IN  { [ids |-> <<id>> \o o.ids, table |-> o.table] :
                          o \in LookupOrInsert(Tail(names),
                                               table \cup { Row(id, title(name)) }) }

type1_id(type_ids) == IF Len(type_ids) >= 1 THEN type_ids[1] ELSE 0

\* type2_id taking the last id collected.
type2_id_last(type_ids) == IF Len(type_ids) >= 2 THEN type_ids[Len(type_ids)] ELSE 0

type2_id(type_ids) == IF Len(type_ids) >= 2 THEN type_ids[2] ELSE 0

\* UpsertPokemon looking the name up as it is spelt.
UpsertPokemonExact(table, pokemon_name, t1, t2) ==
    LET found == { r \in table : r.name = pokemon_name } IN
    IF found # {}
    THEN { [pokemon_id |-> r.id,
            table |-> (table \ {r}) \cup { [r EXCEPT !.type1_id = t1, !.type2_id = t2] }] :
             r \in found }
    ELSE LET id == lastrowid(table)
         IN  { [pokemon_id |-> id,
                table |-> table \cup { PokemonRow(id, title(pokemon_name), t1, t2) }] }

\* SELECT id FROM pokemon WHERE LOWER(name) = LOWER(?), fetchone, then the
\* UPDATE of the type slots of that row, or the INSERT of a new row.
UpsertPokemon(table, pokemon_name, t1, t2) ==
    LET found == { r \in table : LOWER(r.name) = LOWER(pokemon_name) } IN
    IF found # {}
    THEN { [pokemon_id |-> r.id,
            table |-> (table \ {r}) \cup { [r EXCEPT !.type1_id = t1, !.type2_id = t2] }] :
             r \in found }
    ELSE LET id == lastrowid(table)
         IN  { [pokemon_id |-> id,
                table |-> table \cup { PokemonRow(id, title(pokemon_name), t1, t2) }] }

\* One trainer_pokemon_abilities row per ability, with the trainer drawn for it.
NewLinks(table, trainer_ids, pokemon_id, ability_ids) ==
    { [id |-> lastrowid(table) + i - 1, trainer_id |-> trainer_ids[i],
       pokemon_id |-> pokemon_id, ability_id |-> ability_ids[i]] :
        i \in DOMAIN ability_ids }

\* POST /pokemon/create/{pokemon_name}, the provider answering response.
create_pokemon(pokemon_name, response) ==
    /\ creates < MaxCreates
    /\ creates' = creates + 1
    /\ before' = Snapshot(<<>>)
    /\ UNCHANGED <<trainers, runs>>
    /\ IF response.status # 200
       THEN /\ last' = Call("create", pokemon_name, <<>>, <<>>, <<>>, 404, <<>>)
            /\ UNCHANGED <<pokemon, types, abilities, trainer_pokemon_abilities>>
       ELSE \E ty \in LookupOrInsert(response.types, types) :
            \E pk \in UpsertPokemon(pokemon, pokemon_name,
                                    type1_id(ty.ids), type2_id(ty.ids)) :
            \E ab \in LookupOrInsert(response.abilities, abilities) :
              IF response.abilities # <<>> /\ trainers = {}
              THEN \* conn.rollback()
                   /\ last' = Call("create", pokemon_name, response.types,
                                   response.abilities, <<>>, 500, <<>>)
                   /\ UNCHANGED <<pokemon, types, abilities, trainer_pokemon_abilities>>
              ELSE \E trainer_ids \in [DOMAIN ab.ids -> Ids(trainers)] :
                   LET new == NewLinks(trainer_pokemon_abilities, trainer_ids,
                                       pk.pokemon_id, ab.ids)
                   IN  \* conn.commit()
                       /\ types' = ty.table
                       /\ pokemon' = pk.table
                       /\ abilities' = ab.table
                       /\ trainer_pokemon_abilities' = trainer_pokemon_abilities \cup new
                       /\ last' = Call("create", pokemon_name, response.types,
                                       response.abilities, <<>>, 200,
                                       [ i \in DOMAIN ab.ids |->
                                           lastrowid(trainer_pokemon_abilities) + i - 1 ])

fire == <<"f", "i", "r", "e">>
Water_ == <<"W", "a", "t", "e", "r", " ">>
ice == <<"i", "c", "e">>
static == <<"s", "t", "a", "t", "i", "c">>
run_away == <<"r", "u", "n", "-", "a", "w", "a", "y">>

\* The type lists the provider declares.
TypeLists ==
    { <<>>, <<fire, fire>>, <<Water_, fire, ice>> }

\* The ability lists the provider declares.
AbilityLists == { <<>>, <<static, run_away>> }

\* The answers of the provider: not found, or the detail of the creature.
Responses ==
    { [status |-> 404, types |-> <<>>, abilities |-> <<>>] }
    \cup { [status |-> 200, types |-> tys, abilities |-> abis] :
             tys \in TypeLists, abis \in AbilityLists }

\* The names that are asked for.
CreateNames ==
    { <<"p", "i", "k", "a", "c", "h", "u">>, <<"E", "E", "V", "E", "E">> }

CreateNext ==
    \E pokemon_name \in CreateNames : \E response \in Responses :
        create_pokemon(pokemon_name, response)

Fire == <<"F", "i", "r", "e">>
Ash == <<"A", "s", "h">>
Misty == <<"M", "i", "s", "t", "y">>

\* The stores the service starts on: with no trainers or two; with no types, or
\* the two rows named alike that clean_database can leave; with no pokemon or
\* one.
CreateInit ==
    /\ trainers \in { {}, { Row(1, Ash), Row(2, Misty) } }
    /\ types \in { {}, { Row(1, Fire), Row(2, Fire) } }
    /\ pokemon \in { {}, { PokemonRow(1, Pikachu, 1, 0) } }
    /\ abilities = {}
    /\ trainer_pokemon_abilities = {}
    /\ last = NoCall
    /\ before = NoSnapshot
    /\ runs = 0
    /\ creates = 0

SpecCreate == CreateInit /\ [][CreateNext]_vars

\* ------------------------------------------------------------ claims on create_pokemon

\* Every row of the table was in it before.
NothingNew(table, was) == table \subseteq was

\* C4: create_pokemon of a creature the provider resolves, on a store with no
\* trainers, ends with the error 500 and leaves no types, abilities, pokemon or
\* trainer_pokemon_abilities row that was not there before, whatever the type
\* list and the ability list are.
C4_NoTrainersPersistsNothing ==
    (last.op = "create" /\ last.status # 404 /\ before.trainers = {}) =>
        /\ last.status = 500
        /\ NothingNew(types, before.types)
        /\ NothingNew(abilities, before.abilities)
        /\ NothingNew(pokemon, before.pokemon)
        /\ NothingNew(trainer_pokemon_abilities, before.trainer_pokemon_abilities)

\* type1_id differs from type2_id on every pokemon row that has both.
TypeSlotsDiffer ==
    \A p \in pokemon : (p.type1_id # 0 /\ p.type2_id # 0) => p.type1_id # p.type2_id

\* C7: a store in which type1_id differs from type2_id on every pokemon row
\* that has both is still such a store after create_pokemon, for every type
\* list the provider declares.
C7_TypeSlotsStayDifferent == [][TypeSlotsDiffer => TypeSlotsDiffer']_vars

\* The types row of that id is named as the provider declared.
TypeNamed(type_id, declared) ==
    \E t \in types : t.id = type_id /\ lower(t.name) = lower(strip(declared))

\* C8: create_pokemon of a creature with three or more declared types fails
\* only for want of a trainer, and when it succeeds the pokemon row of that name
\* has the first declared type as type1_id and the second as type2_id.
C8_FirstTwoTypesRecorded ==
    (last.op = "create" /\ Len(last.types) >= 3) =>
        /\ last.status \in {200, 500}
        /\ last.status = 500 => (trainers = {} /\ last.abilities # <<>>)
        /\ last.status = 200 =>
             \E p \in pokemon :
                /\ lower(p.name) = lower(last.arg)
                /\ TypeNamed(p.type1_id, last.types[1])
                /\ TypeNamed(p.type2_id, last.types[2])
                /\ \A t \in types :
                     lower(t.name) = lower(strip(last.types[3]))
                        => t.id \notin {p.type1_id, p.type2_id}

\* C8's case: the types "Water ", "fire", "ice" were declared, the call succeeded
\* and a types row "Ice" was made that the pokemon row does not refer to.
C8_Witness ==
    /\ last.op = "create"
    /\ last.types = <<Water_, fire, ice>>
    /\ last.status = 200
    /\ \E p \in pokemon : \E t \in types :
         /\ lower(p.name) = lower(last.arg)
         /\ t.name = <<"I", "c", "e">>
         /\ t.id \notin {p.type1_id, p.type2_id}
         /\ t \notin before.types

\* No two rows of pokemon, of types or of abilities share a name under
\* case-insensitive comparison.
CreateNamesUnique ==
    NamesUnique(pokemon) /\ NamesUnique(types) /\ NamesUnique(abilities)

\* C10: a store in which no two rows of pokemon, types or abilities share a name
\* under case-insensitive comparison is still such a store after create_pokemon,
\* whether the call succeeds or fails.
C10_CreateKeepsNamesUnique == [][CreateNamesUnique => CreateNamesUnique']_vars

\* C10's case: on a store with unique names, "pikachu" was asked for while
\* "Pikachu" was stored; no pokemon row was added, and types and abilities rows
\* were.
C10_Witness ==
    /\ last.op = "create"
    /\ last.status = 200
    /\ last.arg = <<"p", "i", "k", "a", "c", "h", "u">>
    /\ NamesUnique(before.pokemon) /\ NamesUnique(before.types)
    /\ NamesUnique(before.abilities)
    /\ \E r \in before.pokemon : r.name = Pikachu
    /\ Ids(pokemon) = Ids(before.pokemon)
    /\ Ids(types) # Ids(before.types)
    /\ Ids(abilities) # Ids(before.abilities)
    /\ CreateNamesUnique

====
